---- MODULE Spec2Model ----
(***************************************************************************)
(* Batch image-conversion pipeline of image-converter-pro:                 *)
(*   - ConversionWorker.run / cancel            (src/core/worker.py)       *)
(*   - ImageProcessor.convert_image             (src/core/image_processor) *)
(*   - DatabaseManager.add_conversion_record    (src/core/database.py)     *)
(*   - GifCreationWorker / GifOptimizationWorker (src/extensions)          *)
(* The ledger is the conversion_history table; every worker thread opens   *)
(* its own sqlite3 connection per call, so writers meet at the file lock.  *)
(***************************************************************************)
EXTENDS Integers, Sequences, FiniteSets, TLC

\* ---------------------------------------------------------------- bounds
\* Longest input list of a batch.
MaxFiles == 2
\* Largest id the store hands out and last tick of the clock in StoreSpec.
MaxIds == 2
\* Largest number of paths handed to create_gif_from_images in GifSpec.
MaxImages == 2
\* Largest number of frames of an animation in ExtractSpec.
MaxFrames == 50
MaxClock == 1
\* Largest frame duration asked of GifCreationParams, in milliseconds.
MaxDuration == 5001

\* ------------------------------------------------------------ vocabulary
\* What the codec library does with one source file: every step succeeds,
\* the decode fails (unreadable / corrupt source), or the encode fails.
CodecOutcomes == {"ok", "decode_error", "encode_error"}

\* Names bound in the global namespace of image_processor.py by its import
\* statements and class definitions.  `datetime` is not among them.
ImageProcessorGlobals ==
    {"time", "Path", "Optional", "Tuple", "Callable", "Dict", "Any", "Image",
     "ImageOps", "QThread", "pyqtSignal", "QObject", "logger", "BaseModel",
     "ConversionRecord", "ImageInfo", "ConversionParams", "ImageProcessor"}

\* Names bound in the global namespace of gif_processor.py.
GifProcessorGlobals ==
    {"time", "datetime", "Path", "List", "Optional", "Callable", "Union",
     "Image", "ImageSequence", "BaseModel", "Field", "validator", "logger",
     "ConversionRecord", "ImageProcessor", "ConversionParams",
     "GifCreationParams", "GifOptimizationParams", "GifProcessor"}

\* Exception classes the modelled code can raise; all derive from Exception.
ExceptionClasses ==
    {"decode_error", "encode_error", "NameError", "OperationalError",
     "ValueError"}

\* The two GIF worker threads that may run beside a batch.
GifWorkers == {"create", "optimize"}

\* No ConversionRecord.  In every record width = 0 / height = 0 stand for
\* None, and created_at is a reading of the clock in ticks.
NoRecord ==
    [status |-> "none", batch |-> "none", src |-> 0, target_format |-> "none",
     source_size |-> 0, target_size |-> 0, width |-> 0, height |-> 0,
     created_at |-> 0, duration_ms |-> 0]

VARIABLES
    files,          \* the batch: codec outcome of each source file, in order
    cw_pc,          \* ConversionWorker: idle, check, body, finish, done, crashed
    cw_i,           \* enumerate index of the current file (0-based, as in run)
    cw_completed,   \* local `completed` of run
    cw_cancelled,   \* self._cancelled
    cw_cancel_at,   \* history: pc of run when cancel() was first called
    cw_signals,     \* history: signals emitted by the worker, in order
    cw_attempted,   \* history: files handed to convert_image, in order
    targets,        \* batch files whose target file exists on disk
    names,          \* the batch: path of each source file, in order
    disk,           \* files in the output directory: path and last writer
    ledger,         \* rows of conversion_history, in insertion order
    db_lock,        \* connection holding the write lock, or "none"
    append_log,     \* history: one entry per add_conversion_record call
    gw_pc,          \* GIF workers: idle, process, insert, commit, emit, done
    gw_cancelled,   \* GIF workers: self._cancelled
    gw_input,       \* GIF workers: codec outcome of the operation
    gw_ret,         \* GIF workers: value returned by add_conversion_record
    gw_signals,     \* history: signals emitted by each GIF worker
    gw_record,      \* the record the processor returned to each GIF worker
    gw_output,      \* GIF workers whose output file exists on disk
    built,          \* history: every ConversionRecord a processor constructed
    last_id,        \* AUTOINCREMENT: the largest id the table ever gave out
    clock,          \* the wall clock, in ticks
    gif_images,     \* number of paths handed to create_gif_from_images
    gif_elapsed,    \* milliseconds a GIF operation takes
    st_op,          \* history: the last call made on the store by the GUI
    stats,          \* what the last get_statistics call returned
    hist,           \* what the last get_conversion_history call returned
    ex_pc,          \* extract_gif_frames: idle, loop, done, failed
    ex_total,       \* frames of the animation being extracted
    ex_i,           \* enumerate index of the next frame
    ex_written,     \* frame files on disk, in the order they were written
    ex_progress,    \* history: values handed to progress_callback
    ex_callback,    \* whether the caller passed a progress_callback
    ex_result,      \* the list extract_gif_frames returned
    cfg_settings,   \* AppConfig._settings: <<>> for None, else <<settings>>
    cfg_file,       \* config.json in the application data directory
    cfg_op,         \* history: the last call made on the configuration
    cfg_new,        \* _settings of the AppConfig constructed last on the directory
    gp_request,     \* frame_duration handed to GifCreationParams
    gp_params,      \* <<>> before the construction, else <<its result>>
    sv_image,       \* width and height of the image handed to _save_image
    sv_kwargs       \* <<>> before the call, else <<save_kwargs of img.save>>

cw_vars == <<cw_pc, cw_i, cw_completed, cw_cancelled, cw_cancel_at,
             cw_signals, cw_attempted, targets, names, disk>>
db_vars == <<ledger, db_lock, append_log>>
gw_vars == <<gw_pc, gw_cancelled, gw_input, gw_ret, gw_signals, gw_record>>
env_vars == <<clock, gif_images, gif_elapsed>>
st_vars == <<st_op, stats, hist>>
ex_vars == <<ex_pc, ex_total, ex_i, ex_written, ex_progress, ex_callback,
             ex_result>>
\* State the batch and GIF workers never touch.
cfg_vars == <<cfg_settings, cfg_file, cfg_op, cfg_new>>
form_vars == <<gp_request, gp_params, sv_image, sv_kwargs>>
ext_vars == <<env_vars, st_vars, ex_vars, cfg_vars, form_vars>>
vars == <<files, cw_vars, db_vars, gw_vars, gw_output, built, last_id, ext_vars>>

\* All sequences over S of length at most n.
RECURSIVE SeqsUpTo(_, _)
SeqsUpTo(S, n) ==
    IF n = 0 THEN {<<>>}
    ELSE LET shorter == SeqsUpTo(S, n - 1)
         IN shorter \cup {Append(s, x) : s \in {t \in shorter : Len(t) = n - 1}, x \in S}

\* A signal as the receiving slot sees it.
Signal(name, n, total, err) == [sig |-> name, n |-> n, total |-> total, err |-> err]

\* ------------------------------------------------------- pure functions
\* Name lookup in a module's globals: an unbound name raises NameError.
NameBound(name, globals) == name \in globals

\* Path.stat().st_size of the files the model knows: every input file has
\* 1000 bytes and every file an encoder wrote has 600.
st_size(path) == IF path = "target" THEN 600 ELSE 1000

\* ConversionRecord(...) as built on the success path of convert_image:
\* target_size is the stat of the file just written, width and height are
\* those of the image, created_at is datetime.now().
CompletedRecord(batch, src) ==
    [status |-> "completed", batch |-> batch, src |-> src, target_format |-> "jpg",
     source_size |-> st_size("source"), target_size |-> st_size("target"),
     width |-> 1, height |-> 1, created_at |-> clock, duration_ms |-> 0]

\* ConversionRecord(...) as built in the except branch of convert_image.
FailedRecord(batch, src) ==
    [status |-> "failed", batch |-> batch, src |-> src, target_format |-> "jpg",
     source_size |-> st_size("source"), target_size |-> 0,
     width |-> 0, height |-> 0, created_at |-> clock, duration_ms |-> 0]

\* ImageProcessor.convert_image on file `src` whose codec steps end in
\* `outcome`.  The try block decodes, resizes, normalises and saves, then
\* builds the record with created_at=datetime.now(); the except branch
\* builds a failed record, again with datetime.now(), and re-raises.
\*   saved  : _save_image wrote the target file
\*   raised : the call leaves by an exception
\*   error  : the exception that leaves the call
\*   built  : the last record the call constructed
\*   record : the record returned to the caller
convert_image(src, outcome) ==
    LET saved == outcome = "ok"
        tryError ==
            IF outcome # "ok" THEN outcome
            ELSE IF ~NameBound("datetime", ImageProcessorGlobals) THEN "NameError"
            ELSE "none"
        handlerBuilds == NameBound("datetime", ImageProcessorGlobals)
        leaveError ==
            IF tryError = "none" THEN "none"
            ELSE IF handlerBuilds THEN tryError
            ELSE "NameError"
    IN  [saved  |-> saved,
         raised |-> tryError # "none",
         error  |-> leaveError,
         built  |-> IF tryError = "none" THEN CompletedRecord("conv", src)
                    ELSE IF handlerBuilds THEN FailedRecord("conv", src)
                    ELSE NoRecord,
         record |-> IF tryError = "none" THEN CompletedRecord("conv", src)
                    ELSE NoRecord]

\* An except clause that names only the codec's exception classes.
run_catches_codec_only(error) == error \in {"decode_error", "encode_error"}

\* `except Exception` of ConversionWorker.run: every exception class the
\* body can raise derives from Exception.
run_catches(error) == error \in ExceptionClasses

\* A loop head that ignores the flag.
run_never_breaks(flag) == FALSE

\* `if self._cancelled: break` at the top of each iteration.
run_breaks(flag) == flag

\* CURRENT_TIMESTAMP, the column default of created_at: the clock cut to
\* whole seconds (a second has two ticks).
CURRENT_TIMESTAMP == (clock \div 2) * 2

\* The row INSERT stores for a record: AUTOINCREMENT id plus the columns
\* the statement lists.  created_at is not among them, so the column takes
\* its default; built_at is a history field keeping record.created_at.
Row(rec, id) ==
    [id |-> id, status |-> rec.status, batch |-> rec.batch, src |-> rec.src,
     target_format |-> rec.target_format, source_size |-> rec.source_size,
     target_size |-> rec.target_size, width |-> rec.width, height |-> rec.height,
     duration_ms |-> rec.duration_ms, created_at |-> CURRENT_TIMESTAMP,
     built_at |-> rec.created_at]

\* INSERT OR REPLACE semantics: the new row takes the place of the last.
insert_or_replace(rows, row) ==
    IF rows = <<>> THEN <<row>> ELSE [rows EXCEPT ![Len(rows)] = row]

\* INSERT INTO conversion_history: the table gains the row.
insert_row(rows, row) == Append(rows, row)

\* What one call on the database can meet below it.
IoOutcomes == {"ok", "io_error"}

\* Value add_conversion_record returns: lastrowid after a commit, and 0
\* from its `except Exception` branch.
add_result(outcome, id) == IF outcome = "ok" THEN id ELSE 0

\* Entry of the call history.
LogEntry(caller, outcome, id) ==
    [caller |-> caller, outcome |-> outcome, ret |-> add_result(outcome, id)]

\* Rows a batch or operation has in the ledger.
RowsOf(batch) == SelectSeq(ledger, LAMBDA r : r.batch = batch)

\* Signals of one kind among those the ConversionWorker emitted.
SignalsOf(name) == SelectSeq(cw_signals, LAMBDA s : s.sig = name)

\* What the codec library does with one GIF operation.
GifOutcomes == {"ok", "decode_error"}

\* ConversionRecord(...) as built at the end of create_gif_from_images and
\* of optimize_gif: sizes from stat, dimensions of the first frame.
GifCompletedRecord(w, source_size) ==
    [status |-> "completed", batch |-> w, src |-> 0, target_format |-> "gif",
     source_size |-> source_size, target_size |-> st_size("target"),
     width |-> 1, height |-> 1, created_at |-> clock, duration_ms |-> gif_elapsed]

\* A failed record that carries a size for the target.
GifFailedRecordSized(w, source_size) ==
    [status |-> "failed", batch |-> w, src |-> 0, target_format |-> "gif",
     source_size |-> source_size, target_size |-> source_size,
     width |-> 0, height |-> 0, created_at |-> clock, duration_ms |-> gif_elapsed]

\* ConversionRecord(...) as built in the except branch of
\* create_gif_from_images (and dropped by the `raise` that follows).
GifFailedRecord(w, source_size) ==
    [status |-> "failed", batch |-> w, src |-> 0, target_format |-> "gif",
     source_size |-> source_size, target_size |-> 0,
     width |-> 0, height |-> 0, created_at |-> clock, duration_ms |-> gif_elapsed]

\* GifProcessor.create_gif_from_images on n paths.  A decode error is met
\* at the last path, so it needs a path to happen on; the loop sums the
\* sizes of the paths it opened; _save_animated_gif raises ValueError on
\* an empty frame list and writes the output otherwise.
\*   raised  : the call leaves by an exception
\*   error   : the exception that leaves the call
\*   written : the output file exists when the call is left
\*   built   : the last record the call constructed
\*   record  : the record returned to the caller
create_gif_from_images(n, outcome) ==
    LET loopError == IF n >= 1 /\ outcome # "ok" THEN outcome ELSE "none"
        total_source_size ==
            IF loopError # "none" THEN (n - 1) * st_size("source")
            ELSE n * st_size("source")
        saveError == IF n = 0 THEN "ValueError" ELSE "none"
        tryError ==
            IF loopError # "none" THEN loopError
            ELSE IF saveError # "none" THEN saveError
            ELSE IF ~NameBound("datetime", GifProcessorGlobals) THEN "NameError"
            ELSE "none"
    IN  [raised  |-> tryError # "none",
         error   |-> tryError,
         written |-> loopError = "none" /\ saveError = "none",
         built   |-> IF tryError = "none"
                     THEN GifCompletedRecord("create", total_source_size)
                     ELSE GifFailedRecord("create", total_source_size),
         record  |-> IF tryError = "none"
                     THEN GifCompletedRecord("create", total_source_size)
                     ELSE NoRecord]

\* GifProcessor.optimize_gif: the except branch builds no record.
optimize_gif(outcome) ==
    LET tryError ==
            IF outcome # "ok" THEN outcome
            ELSE IF ~NameBound("datetime", GifProcessorGlobals) THEN "NameError"
            ELSE "none"
    IN  [raised  |-> tryError # "none",
         error   |-> tryError,
         written |-> outcome = "ok",
         built   |-> IF tryError = "none"
                     THEN GifCompletedRecord("optimize", st_size("source"))
                     ELSE NoRecord,
         record  |-> IF tryError = "none"
                     THEN GifCompletedRecord("optimize", st_size("source"))
                     ELSE NoRecord]

\* The processor call worker w makes in run.
gif_operation(w, outcome) ==
    IF w = "create" THEN create_gif_from_images(gif_images, outcome)
    ELSE optimize_gif(outcome)

\* ------------------------------------------------------- store queries
\* WHERE status = 'completed'.
is_completed(r) == r.status = "completed"

\* A filter that lets every row through.
saves_any(r) == TRUE

\* AND source_size > target_size.
saves_space(r) == r.source_size > r.target_size

\* SUM(source_size - target_size) over the rows of a result set, scanned
\* in table order; `or 0` turns the NULL of an empty set into 0.
RECURSIVE sum_saved(_)
sum_saved(rows) ==
    IF rows = <<>> THEN 0
    ELSE (Head(rows).source_size - Head(rows).target_size) + sum_saved(Tail(rows))

\* The dictionary get_statistics builds from its three aggregate queries.
get_statistics(rows) ==
    LET completed == SelectSeq(rows, is_completed)
        formats == {completed[k].target_format : k \in DOMAIN completed}
    IN  [total_conversions |-> Len(completed),
         by_format |-> [f \in formats |->
             Len(SelectSeq(completed, LAMBDA r : r.target_format = f))],
         size_saved_bytes |-> sum_saved(SelectSeq(completed, saves_space))]

\* The dictionary of the except branch of get_statistics.
ZeroStatistics ==
    [total_conversions |-> 0, by_format |-> <<>>, size_saved_bytes |-> 0]

\* The statistics panel before get_statistics was ever called.
NoStatistics ==
    [total_conversions |-> -1, by_format |-> <<>>, size_saved_bytes |-> -1]

\* Entry of the GUI's call history: the call and its limit argument.
StoreOp(op, limit) == [op |-> op, limit |-> limit]

\* An except branch that hands back what it was given.
read_propagates(outcome, value, fallback) == value

\* try / except Exception of the two read calls: the value on success,
\* the fallback when the database cannot be read.
read_result(outcome, value, fallback) ==
    IF outcome = "ok" THEN value ELSE fallback

\* ORDER BY created_at DESC, served by a backward scan of the index on
\* created_at: rows of one second come out in descending rowid.
newer(a, b) ==
    \/ a.created_at > b.created_at
    \/ a.created_at = b.created_at /\ a.id > b.id

RECURSIVE order_by_created_at_desc(_)
order_by_created_at_desc(rows) ==
    IF rows = <<>> THEN <<>>
    ELSE LET k == CHOOSE i \in DOMAIN rows :
                    \A j \in DOMAIN rows : j = i \/ newer(rows[i], rows[j])
             rest == [j \in 1..(Len(rows) - 1) |-> IF j < k THEN rows[j] ELSE rows[j + 1]]
         IN  <<rows[k]>> \o order_by_created_at_desc(rest)

\* ConversionRecord(...) built from one fetched row: created_at is parsed
\* from the created_at column.
HistoryRecord(row) ==
    [id |-> row.id, status |-> row.status, target_format |-> row.target_format,
     source_size |-> row.source_size, target_size |-> row.target_size,
     created_at |-> row.created_at]

\* The list get_conversion_history builds: LIMIT ? of the ordered rows.
get_conversion_history(rows, limit) ==
    LET ordered == order_by_created_at_desc(rows)
        n == IF Len(ordered) < limit THEN Len(ordered) ELSE limit
    IN  [k \in 1..n |-> HistoryRecord(ordered[k])]

\* A DELETE that spares the rows of failed conversions.
delete_completed(rows) == SelectSeq(rows, LAMBDA r : ~is_completed(r))

\* DELETE FROM conversion_history.
delete_all(rows) == <<>>

\* ------------------------------------------------- float arithmetic
\* A positive float is [hi, mid, lo, lsb]: a mantissa of MantissaBits
\* binary digits with leading digit 1, held in three limbs (hi the top
\* MantissaBits - 2 * LimbBits digits, mid and lo LimbBits digits each),
\* worth (the mantissa read as an integer) * 2^(-lsb).
MantissaBits == 53
LimbBits == 18

\* r * 2^n.
RECURSIVE shifted(_, _)
shifted(r, n) == IF n = 0 THEN r ELSE shifted(2 * r, n - 1)

\* Zero digits of r/q (0 < r < q) between the point and its first 1.
RECURSIVE leading_zeros(_, _)
leading_zeros(r, q) == IF 2 * r >= q THEN 0 ELSE 1 + leading_zeros(2 * r, q)

\* Round to nearest, ties to even: `up` says the dropped part is more
\* than half a unit in the last place, `tie` that it is exactly half.  A
\* carry runs up the limbs; out of the top it leaves the next power of two.
round_nearest_even(hi, mid, lo, lsb, up, tie) ==
    LET limb == shifted(1, LimbBits)
        top == shifted(1, MantissaBits - 2 * LimbBits)
        inc == IF up \/ (tie /\ lo % 2 = 1) THEN 1 ELSE 0
        lo1 == lo + inc
        mid1 == mid + lo1 \div limb
        hi1 == hi + mid1 \div limb
    IN  IF hi1 = top
        THEN [hi |-> top \div 2, mid |-> 0, lo |-> 0, lsb |-> lsb - 1]
        ELSE [hi |-> hi1, mid |-> mid1 % limb, lo |-> lo1 % limb, lsb |-> lsb]

\* int / int for 0 < p <= q: the float nearest to the quotient, by long
\* division limb by limb from the first 1 of the quotient on.
true_divide(p, q) ==
    IF p = q
    THEN [hi |-> shifted(1, MantissaBits - 2 * LimbBits - 1), mid |-> 0, lo |-> 0,
          lsb |-> MantissaBits - 1]
    ELSE LET z == leading_zeros(p, q)
             n0 == shifted(shifted(p, z), MantissaBits - 2 * LimbBits)
             n1 == shifted(n0 % q, LimbBits)
             n2 == shifted(n1 % q, LimbBits)
             rem == n2 % q
         IN  round_nearest_even(n0 \div q, n1 \div q, n2 \div q, z + MantissaBits,
                                2 * rem > q, 2 * rem = q)

\* float * int for a small positive int: the exact product limb by limb,
\* cut to MantissaBits digits and rounded.
float_times_int(x, c) ==
    LET limb == shifted(1, LimbBits)
        top == shifted(1, MantissaBits - 2 * LimbBits)
        tl == x.lo * c
        tm == x.mid * c + tl \div limb
        th == x.hi * c + tm \div limb
        extra == CHOOSE d \in 0..LimbBits :
                    /\ th < shifted(top, d)
                    /\ d > 0 => th >= shifted(top, d - 1)
        cut == shifted(1, extra)
        keep == shifted(1, LimbBits - extra)
        dropped == (tl % limb) % cut
    IN  round_nearest_even(
            th \div cut,
            (th % cut) * keep + (tm % limb) \div cut,
            ((tm % limb) % cut) * keep + (tl % limb) \div cut,
            x.lsb - extra,
            2 * dropped > cut,
            extra > 0 /\ 2 * dropped = cut)

\* int(x) for a float below 2^(MantissaBits - 2 * LimbBits): its integer
\* part lies in the top limb.
int_of_float(x) ==
    LET below == x.lsb - 2 * LimbBits
    IN  IF below > MantissaBits - 2 * LimbBits THEN 0
        ELSE x.hi \div shifted(1, below)

\* int((i + 1) / total_frames * 100), evaluated left to right in floats.
progress_percent(i, total_frames) ==
    int_of_float(float_times_int(true_divide(i + 1, total_frames), 100))

\* -------------------------------------------------------- frame names
\* The decimal digits of n, most significant first.
RECURSIVE decimal(_)
decimal(n) == IF n < 10 THEN <<n>> ELSE Append(decimal(n \div 10), n % 10)

\* Format spec 0<width>d: zeros in front up to the width, never cut.
zero_padded(n, width) ==
    LET ds == decimal(n)
    IN  IF Len(ds) >= width THEN ds
        ELSE [k \in 1..(width - Len(ds)) |-> 0] \o ds

\* output_dir / f"frame_{i:04d}.{frame_format}".
frame_path(i, frame_format) ==
    [stem |-> "frame_", index |-> zero_padded(i, 4), suffix |-> frame_format]

\* -------------------------------------------------------- configuration
\* Python values as they travel in keyword arguments, dicts and JSON.
IntV(n) == [t |-> "int", n |-> n, s |-> ""]
StrV(s) == [t |-> "str", n |-> 0, s |-> s]

\* A dict without entries.
EmptyDict == [k \in {} |-> IntV(0)]

\* d.get(k, default) and d[k] = v on a dict.
get(d, k, default) == IF k \in DOMAIN d THEN d[k] ELSE default
set_item(d, k, v) == [x \in DOMAIN d \cup {k} |-> IF x = k THEN v ELSE d[x]]

\* str.lower and str.upper on the strings the model uses.
lower(s) ==
    CASE s = "JPG" -> "jpg"
      [] s = "PNG" -> "png"
      [] s = "INVALID" -> "invalid"
      [] OTHER -> s
upper(s) ==
    CASE s = "debug" -> "DEBUG"
      [] s = "info" -> "INFO"
      [] s = "verbose" -> "VERBOSE"
      [] OTHER -> s

\* An int field that moves a value into its range instead of refusing it.
clamped_int(v, ge, le) ==
    [ok |-> v.t = "int",
     value |-> IF v.n < ge THEN ge ELSE IF v.n > le THEN le ELSE v.n]

\* An int field declared with Field(ge=.., le=..): the value passes or the
\* validation fails.  None of the model's strings reads as a number.
bounded_int(v, ge, le) ==
    [ok |-> v.t = "int" /\ v.n >= ge /\ v.n <= le, value |-> v.n]

\* An int field declared with Field(ge=..) alone.
at_least_int(v, ge) == [ok |-> v.t = "int" /\ v.n >= ge, value |-> v.n]

\* ConversionSettings.validate_output_format.
validate_output_format(v) ==
    [ok |-> v.t = "str" /\ lower(v.s) \in {"png", "jpg", "jpeg", "webp", "ico"},
     value |-> lower(v.s)]

\* AppSettings.validate_logging_level.
validate_logging_level(v) ==
    [ok |-> v.t = "str"
            /\ upper(v.s) \in {"DEBUG", "INFO", "WARNING", "ERROR", "CRITICAL"},
     value |-> upper(v.s)]

\* ConversionSettings(**data): jpeg_quality and default_output_format are
\* modelled; a missing key takes the default, an unknown key is ignored.
ConversionSettings(data) ==
    LET q == bounded_int(get(data, "jpeg_quality", IntV(85)), 1, 100)
        f == validate_output_format(get(data, "default_output_format", StrV("png")))
    IN  [ok |-> q.ok /\ f.ok,
         value |-> [jpeg_quality |-> q.value, default_output_format |-> f.value]]

\* UISettings(**data): window_width is modelled.
UISettings(data) ==
    LET w == at_least_int(get(data, "window_width", IntV(800)), 600)
    IN  [ok |-> w.ok, value |-> [window_width |-> w.value]]

\* AppSettings(**data): the two sections and logging_level; ok is FALSE
\* where pydantic raises ValidationError.
AppSettings(data) ==
    LET c == ConversionSettings(get(data, "conversion", EmptyDict))
        u == UISettings(get(data, "ui", EmptyDict))
        l == validate_logging_level(get(data, "logging_level", StrV("INFO")))
    IN  [ok |-> c.ok /\ u.ok /\ l.ok,
         value |-> [conversion |-> c.value, ui |-> u.value, logging_level |-> l.value]]

\* AppSettings(): every field at its default.
DefaultSettings == AppSettings(EmptyDict).value

\* BaseModel.dict() of an AppSettings object.
dict(st) ==
    [conversion |->
        [jpeg_quality |-> IntV(st.conversion.jpeg_quality),
         default_output_format |-> StrV(st.conversion.default_output_format)],
     ui |-> [window_width |-> IntV(st.ui.window_width)],
     logging_level |-> StrV(st.logging_level)]

\* The number a run of decimal digits denotes.
RECURSIVE digits_value(_)
digits_value(ds) ==
    IF ds = <<>> THEN 0
    ELSE 10 * digits_value(SubSeq(ds, 1, Len(ds) - 1)) + ds[Len(ds)]

\* json.dump and json.load of one value: an int is written as its decimal
\* digits, a str between quotes.
json_token(v) ==
    IF v.t = "int" THEN [t |-> "number", digits |-> decimal(v.n), s |-> ""]
    ELSE [t |-> "string", digits |-> <<>>, s |-> v.s]
json_value(tok) ==
    IF tok.t = "number" THEN IntV(digits_value(tok.digits)) ELSE StrV(tok.s)

\* json.dump of the dict of settings, and json.load of such a document.
json_dump(data) ==
    [conversion |-> [k \in DOMAIN data.conversion |-> json_token(data.conversion[k])],
     ui |-> [k \in DOMAIN data.ui |-> json_token(data.ui[k])],
     logging_level |-> json_token(data.logging_level)]
json_load(doc) ==
    [conversion |-> [k \in DOMAIN doc.conversion |-> json_value(doc.conversion[k])],
     ui |-> [k \in DOMAIN doc.ui |-> json_value(doc.ui[k])],
     logging_level |-> json_value(doc.logging_level)]

\* config.json: missing, present with text that json.load refuses, or
\* present with a JSON document.
MissingFile == [state |-> "missing", doc |-> <<>>]
MalformedFile == [state |-> "malformed", doc |-> <<>>]
JsonFile(doc) == [state |-> "json", doc |-> <<doc>>]

\* What writing config.json can meet: the file is written; mkdir or open
\* fails and the file stays as it was; open has truncated the file and the
\* write fails.
SaveOutcomes == {"ok", "open_error", "write_error"}

\* AppConfig.save: the except branch logs and returns.
save(st, file, outcome) ==
    CASE outcome = "ok" -> JsonFile(json_dump(dict(st)))
      [] outcome = "open_error" -> file
      [] OTHER -> MalformedFile

\* AppConfig.load: the settings it leaves in _settings and the file after
\* it.  A failed read, refused text and refused data all reach the except
\* branch, which installs the defaults.
load(file, read, outcome) ==
    IF file.state = "missing"
    THEN [settings |-> DefaultSettings, file |-> save(DefaultSettings, file, outcome)]
    ELSE IF read # "ok" \/ file.state = "malformed"
    THEN [settings |-> DefaultSettings, file |-> file]
    ELSE LET parsed == AppSettings(json_load(file.doc[1]))
         IN  [settings |-> IF parsed.ok THEN parsed.value ELSE DefaultSettings,
              file |-> file]

\* One pass of the loop of update_settings over a keyword argument: a key
\* is its dot-separated parts, `"." in key` is more than one part, and a
\* dotted key whose section the dict lacks changes nothing.
assign(data, key, value) ==
    IF Len(key) > 1
    THEN IF key[1] \in DOMAIN data
         THEN [data EXCEPT ![key[1]] = set_item(@, key[2], value)]
         ELSE data
    ELSE set_item(data, key[1], value)

RECURSIVE merged(_, _)
merged(data, kwargs) ==
    IF kwargs = <<>> THEN data
    ELSE merged(assign(data, Head(kwargs).key, Head(kwargs).value), Tail(kwargs))

\* Whether `except Exception` of update_settings takes an exception in.
update_catches(error) == error \in ExceptionClasses

\* AppConfig.update_settings: the settings and file it leaves, and whether
\* an exception reaches the caller.  ValidationError is a ValueError.
update_settings(st, file, kwargs, outcome) ==
    LET parsed == AppSettings(merged(dict(st), kwargs))
    IN  IF parsed.ok
        THEN [settings |-> parsed.value, file |-> save(parsed.value, file, outcome),
              rejected |-> FALSE, raised |-> FALSE]
        ELSE [settings |-> st, file |-> file,
              rejected |-> TRUE, raised |-> ~update_catches("ValueError")]

\* ------------------------------------------------------- GIF parameters
\* GifCreationParams.validate_frame_duration.
validate_frame_duration(v) == IF v < 100 THEN 100 ELSE v

\* GifCreationParams(frame_duration=d).  Field(ge=100, le=5000) is part of
\* the validation of the int itself; validate_frame_duration is not
\* declared pre=True, so it is called after that validation and only with
\* a value that passed it.
GifCreationParams(d) ==
    LET checked == bounded_int(IntV(d), 100, 5000)
    IN  [ok |-> checked.ok,
         frame_duration |-> IF checked.ok THEN validate_frame_duration(checked.value)
                            ELSE d]

\* ----------------------------------------------------------- _save_image
\* supported_formats["output"] of ImageProcessor.
OutputFormats == {"jpg", "png", "webp", "ico"}

\* `sizes` of the ICO branch.
ico_sizes == <<<<16, 16>>, <<32, 32>>, <<48, 48>>, <<64, 64>>, <<128, 128>>, <<256, 256>>>>

\* The condition of the list comprehension, and one that looks at the
\* width alone.
fits_width(size, img) == size[1] <= img.width
fits(size, img) == size[1] <= img.width /\ size[2] <= img.height

\* available_sizes of the ICO branch, with its fallback.
available_sizes(img) ==
    LET chosen == SelectSeq(ico_sizes, LAMBDA size : fits(size, img))
    IN  IF chosen = <<>> THEN <<<<16, 16>>>> ELSE chosen

\* save_kwargs as _save_image hands them to img.save, with the format;
\* sizes = <<>> stands for no "sizes" entry.
save_kwargs(target_format, img) ==
    [format |-> target_format,
     quality |-> target_format \in {"jpg", "jpeg", "webp"},
     optimize |-> target_format \in {"jpg", "jpeg", "webp", "png"},
     sizes |-> IF target_format = "ico" THEN available_sizes(img) ELSE <<>>]

\* ------------------------------------------------------- target paths
\* A path: directory, stem and suffix of the file name.
SourcePath(dir, stem, suffix) == [dir |-> dir, stem |-> stem, suffix |-> suffix]

\* output_dir / f"{source_path.stem}.{target_format}".
target_path(source_path, output_dir, target_format) ==
    [dir |-> output_dir, stem |-> source_path.stem, suffix |-> target_format]

\* The output directory after img.save(target_path, ...): a file of that
\* path is replaced.
written(dir_files, path, src) ==
    {f \in dir_files : f.path # path} \cup {[path |-> path, src |-> src]}

\* Source files photo 1, photo 2, ... of one directory, all PNG: the lists
\* of the first n of them.
NumberedNames ==
    {[k \in 1..n |-> SourcePath("in", k, "png")] : n \in 0..MaxFiles}

\* ------------------------------------------------------------------ Init
\* A ConversionWorker constructed with one of the given file lists.
InitBatch(fileLists, nameLists) ==
    /\ files \in fileLists
    /\ names \in {n \in nameLists : Len(n) = Len(files)}
    /\ disk = {}
    /\ cw_pc = "idle"
    /\ cw_i = 0
    /\ cw_completed = 0
    /\ cw_cancelled = FALSE
    /\ cw_cancel_at = "never"
    /\ cw_signals = <<>>
    /\ cw_attempted = <<>>
    /\ targets = {}
    /\ built = {}

\* init_database on a fresh file: an empty table, no lock, time zero.
InitDatabase ==
    /\ ledger = <<>>
    /\ last_id = 0
    /\ db_lock = "none"
    /\ append_log = <<>>
    /\ clock = 0

\* The two GIF workers constructed on inputs with one of the given codec
\* outcomes, the creation worker with one of the given numbers of paths,
\* each operation taking one of the given times.
InitGif(outcomes, imageCounts, elapsed) ==
    /\ gw_pc = [w \in GifWorkers |-> "idle"]
    /\ gw_cancelled = [w \in GifWorkers |-> FALSE]
    /\ gw_input \in [GifWorkers -> outcomes]
    /\ gw_ret = [w \in GifWorkers |-> -1]
    /\ gw_signals = [w \in GifWorkers |-> <<>>]
    /\ gw_record = [w \in GifWorkers |-> NoRecord]
    /\ gw_output = {}
    /\ gif_images \in imageCounts
    /\ gif_elapsed \in elapsed

\* The history and settings tabs before any call on the store.
InitStore ==
    /\ st_op = StoreOp("none", 0)
    /\ stats = NoStatistics
    /\ hist = <<>>

\* The GIF tab before an extraction of an animation with one of the given
\* numbers of frames.
InitExtract(frameCounts, callbacks) ==
    /\ ex_pc = "idle"
    /\ ex_total \in frameCounts
    /\ ex_i = 0
    /\ ex_written = <<>>
    /\ ex_progress = <<>>
    /\ ex_callback \in callbacks
    /\ ex_result = <<>>

\* No call on the configuration so far.
NoCall ==
    [call |-> "none", valid |-> FALSE, invalid |-> FALSE, raised |-> FALSE,
     save |-> "none"]

\* The application data directory with one of the given files in it,
\* before AppConfig is constructed.
InitConfig(configFiles) ==
    /\ cfg_settings = <<>>
    /\ cfg_file \in configFiles
    /\ cfg_op = NoCall
    /\ cfg_new = <<>>

\* Before a GifCreationParams is constructed for one of the given frame
\* durations and before _save_image is called on an image whose sides are
\* among the given ones.
InitForms(durations, sides) ==
    /\ gp_request \in durations
    /\ gp_params = <<>>
    /\ sv_image \in [width : sides, height : sides]
    /\ sv_kwargs = <<>>

\* A batch of up to MaxFiles files and the two GIF workers, the creation
\* worker on two images, over one fresh database; the other tabs at rest.
Init ==
    /\ InitBatch(SeqsUpTo(CodecOutcomes, MaxFiles), NumberedNames)
    /\ InitDatabase
    /\ InitGif(GifOutcomes, {2}, {0})
    /\ InitStore
    /\ InitExtract({1}, {FALSE})
    /\ InitConfig({MissingFile})
    /\ InitForms({500}, {16})

\* ------------------------------------------------------ ConversionWorker
\* ConversionWorker.cancel, called from the GUI thread at any moment.
CW_Cancel ==
    /\ ~cw_cancelled
    /\ cw_cancelled' = TRUE
    /\ cw_cancel_at' = cw_pc
    /\ UNCHANGED <<files, cw_pc, cw_i, cw_completed, cw_signals, cw_attempted,
                   targets, names, disk, db_vars, gw_vars,
                   gw_output, built, last_id, ext_vars>>

\* QThread.start(): run begins with completed = 0 and the first file.
CW_Start ==
    /\ cw_pc = "idle"
    /\ cw_pc' = "check"
    /\ cw_i' = 0
    /\ cw_completed' = 0
    /\ UNCHANGED <<files, cw_cancelled, cw_cancel_at, cw_signals, cw_attempted,
                   targets, names, disk, db_vars, gw_vars,
                   gw_output, built, last_id, ext_vars>>

\* Head of the for loop: the list is exhausted, or the flag breaks the
\* loop, or the next iteration begins.
CW_Check ==
    /\ cw_pc = "check"
    /\ cw_pc' = IF cw_i >= Len(files) \/ run_breaks(cw_cancelled)
                THEN "finish" ELSE "body"
    /\ UNCHANGED <<files, cw_i, cw_completed, cw_cancelled, cw_cancel_at,
                   cw_signals, cw_attempted, targets, names, disk, db_vars, gw_vars,
                   gw_output, built, last_id, ext_vars>>

\* One iteration's try / except: convert, append, count, emit; on an
\* exception emit file_failed.  The append is one call on this thread; it
\* meets the write lock another connection may hold.
CW_Iterate ==
    /\ cw_pc = "body"
    /\ LET src == cw_i + 1
           res == convert_image(src, files[src])
       IN  /\ cw_attempted' = Append(cw_attempted, src)
           /\ targets' = IF res.saved THEN targets \cup {src} ELSE targets
           /\ disk' = IF res.saved
                      THEN written(disk, target_path(names[src], "out", "jpg"), src)
                      ELSE disk
           /\ built' = built \cup ({res.built} \ {NoRecord})
           /\ IF ~res.raised
              THEN \E io \in IoOutcomes :
                     LET outcome == IF db_lock # "none" THEN "locked" ELSE io
                         id == last_id + 1
                     IN  /\ ledger' = IF outcome = "ok"
                                      THEN insert_row(ledger, Row(res.record, id))
                                      ELSE ledger
                         /\ last_id' = IF outcome = "ok" THEN id ELSE last_id
                         /\ append_log' = Append(append_log, LogEntry("conv", outcome, id))
                         /\ cw_completed' = cw_completed + 1
                         /\ cw_signals' = cw_signals \o
                              <<Signal("file_completed", src, 0, "none"),
                                Signal("progress_updated", cw_i + 1, Len(files), "none")>>
                         /\ cw_pc' = "check"
                         /\ cw_i' = cw_i + 1
              ELSE IF run_catches(res.error)
              THEN /\ cw_signals' = Append(cw_signals,
                                           Signal("file_failed", src, 0, res.error))
                   /\ cw_pc' = "check"
                   /\ cw_i' = cw_i + 1
                   /\ UNCHANGED <<ledger, last_id, append_log, cw_completed>>
              ELSE /\ cw_pc' = "crashed"
                   /\ UNCHANGED <<ledger, last_id, append_log, cw_completed,
                                  cw_signals, cw_i>>
    /\ UNCHANGED <<files, names, cw_cancelled, cw_cancel_at, db_lock, gw_vars,
                   gw_output, ext_vars>>

\* After the loop: all_completed.emit(completed).
CW_Finish ==
    /\ cw_pc = "finish"
    /\ cw_signals' = Append(cw_signals, Signal("all_completed", cw_completed, 0, "none"))
    /\ cw_pc' = "done"
    /\ UNCHANGED <<files, cw_i, cw_completed, cw_cancelled, cw_cancel_at,
                   cw_attempted, targets, names, disk, db_vars, gw_vars,
                   gw_output, built, last_id, ext_vars>>

\* ----------------------------------------------------------- GIF workers
\* GifCreationWorker.cancel / GifOptimizationWorker.cancel.
GW_Cancel(w) ==
    /\ ~gw_cancelled[w]
    /\ gw_pc[w] # "done"
    /\ gw_cancelled' = [gw_cancelled EXCEPT ![w] = TRUE]
    /\ UNCHANGED <<files, cw_vars, db_vars, gw_pc, gw_input, gw_ret, gw_signals,
                   gw_record, gw_output, built, last_id, ext_vars>>

\* A run that does not look at the flag.
gw_never_returns(flag) == FALSE

\* `if self._cancelled: return` at the top of run.
gw_returns(flag) == flag

\* run begins: `if self._cancelled: return`.
GW_Run(w) ==
    /\ gw_pc[w] = "idle"
    /\ gw_pc' = [gw_pc EXCEPT ![w] = IF gw_returns(gw_cancelled[w])
                                     THEN "done" ELSE "process"]
    /\ UNCHANGED <<files, cw_vars, db_vars, gw_cancelled, gw_input, gw_ret,
                   gw_signals, gw_record, gw_output, built, last_id, ext_vars>>

\* The processor call of run; an exception goes to `except Exception`,
\* which emits the failed signal and ends run.
GW_Process(w) ==
    /\ gw_pc[w] = "process"
    /\ LET res == gif_operation(w, gw_input[w])
       IN  /\ gw_output' = IF res.written THEN gw_output \cup {w} ELSE gw_output
           /\ built' = built \cup ({res.built} \ {NoRecord})
           /\ gw_record' = [gw_record EXCEPT ![w] = res.record]
           /\ IF res.raised
              THEN /\ gw_signals' = [gw_signals EXCEPT ![w] = Append(@, "failed")]
                   /\ gw_pc' = [gw_pc EXCEPT ![w] = "done"]
              ELSE /\ gw_pc' = [gw_pc EXCEPT ![w] = "insert"]
                   /\ UNCHANGED gw_signals
    /\ UNCHANGED <<files, cw_vars, db_vars, gw_cancelled, gw_input, gw_ret, last_id,
                   ext_vars>>

\* add_conversion_record, cursor.execute(INSERT) with the write lock free:
\* the connection takes the lock, or the statement fails and the except
\* branch returns 0.
DB_Execute(w) ==
    /\ gw_pc[w] = "insert"
    /\ db_lock = "none"
    /\ \E io \in IoOutcomes :
         IF io = "ok"
         THEN /\ db_lock' = w
              /\ gw_pc' = [gw_pc EXCEPT ![w] = "commit"]
              /\ UNCHANGED <<append_log, gw_ret>>
         ELSE /\ append_log' = Append(append_log, LogEntry(w, io, 0))
              /\ gw_ret' = [gw_ret EXCEPT ![w] = add_result(io, 0)]
              /\ gw_pc' = [gw_pc EXCEPT ![w] = "emit"]
              /\ UNCHANGED db_lock
    /\ UNCHANGED <<files, cw_vars, ledger, gw_cancelled, gw_input, gw_signals,
                   gw_record, gw_output, built, last_id, ext_vars>>

\* add_conversion_record, cursor.execute(INSERT) while another connection
\* holds the write lock: sqlite3.connect's default busy timeout runs out,
\* OperationalError("database is locked") reaches the except branch.
DB_Busy(w) ==
    /\ gw_pc[w] = "insert"
    /\ db_lock \notin {"none", w}
    /\ append_log' = Append(append_log, LogEntry(w, "locked", 0))
    /\ gw_ret' = [gw_ret EXCEPT ![w] = add_result("locked", 0)]
    /\ gw_pc' = [gw_pc EXCEPT ![w] = "emit"]
    /\ UNCHANGED <<files, cw_vars, ledger, db_lock, gw_cancelled, gw_input,
                   gw_signals, gw_record, gw_output, built, last_id, ext_vars>>

\* add_conversion_record, conn.commit() and `return cursor.lastrowid`; a
\* failed commit is rolled back when the connection closes.
DB_Commit(w) ==
    /\ gw_pc[w] = "commit"
    /\ db_lock = w
    /\ \E io \in IoOutcomes :
         LET id == last_id + 1
             rec == gw_record[w]
         IN  /\ ledger' = IF io = "ok" THEN insert_row(ledger, Row(rec, id)) ELSE ledger
             /\ last_id' = IF io = "ok" THEN id ELSE last_id
             /\ append_log' = Append(append_log, LogEntry(w, io, id))
             /\ gw_ret' = [gw_ret EXCEPT ![w] = add_result(io, id)]
    /\ db_lock' = "none"
    /\ gw_pc' = [gw_pc EXCEPT ![w] = "emit"]
    /\ UNCHANGED <<files, cw_vars, gw_cancelled, gw_input, gw_signals, gw_record,
                   gw_output, built, ext_vars>>

\* After the append returned: creation_completed / optimization_completed.
GW_Emit(w) ==
    /\ gw_pc[w] = "emit"
    /\ gw_signals' = [gw_signals EXCEPT ![w] = Append(@, "completed")]
    /\ gw_pc' = [gw_pc EXCEPT ![w] = "done"]
    /\ UNCHANGED <<files, cw_vars, db_vars, gw_cancelled, gw_input, gw_ret,
                   gw_record, gw_output, built, last_id, ext_vars>>

\* ------------------------------------------------------------------ Next
Next ==
    \/ CW_Cancel
    \/ CW_Start
    \/ CW_Check
    \/ CW_Iterate
    \/ CW_Finish
    \/ \E w \in GifWorkers : GW_Cancel(w)
    \/ \E w \in GifWorkers : GW_Run(w)
    \/ \E w \in GifWorkers : GW_Process(w)
    \/ \E w \in GifWorkers : DB_Execute(w)
    \/ \E w \in GifWorkers : DB_Busy(w)
    \/ \E w \in GifWorkers : DB_Commit(w)
    \/ \E w \in GifWorkers : GW_Emit(w)

Spec == Init /\ [][Next]_vars

\* ----------------------------------------------------------------- store
\* The calls the GUI makes on the store, one at a time on the GUI thread,
\* while no worker runs.
store_frame == <<files, cw_vars, gw_vars, gw_output, built, db_lock, append_log,
                 gif_images, gif_elapsed, ex_vars, cfg_vars, form_vars>>

\* Records handed to add_conversion_record: what a pipeline measured.
StoreInputs ==
    {[status |-> "completed", target_format |-> f, source_size |-> 1000, target_size |-> 600] :
        f \in {"jpg", "gif"}}
    \cup {[status |-> "completed", target_format |-> "gif", source_size |-> 600, target_size |-> 1000],
          [status |-> "failed", target_format |-> "jpg", source_size |-> 1000, target_size |-> 0]}

\* The ConversionRecord a pipeline builds from its measurements now.
StoreRecord(in) ==
    [status |-> in.status, batch |-> "store", src |-> 0,
     target_format |-> in.target_format, source_size |-> in.source_size,
     target_size |-> in.target_size,
     width |-> IF in.status = "completed" THEN 1 ELSE 0,
     height |-> IF in.status = "completed" THEN 1 ELSE 0,
     created_at |-> clock, duration_ms |-> 0]

\* limit arguments: the default of the history tab and a short page.
HistoryLimits == {1, 500}

\* Time passes.
ST_Tick ==
    /\ clock < MaxClock
    /\ clock' = clock + 1
    /\ UNCHANGED <<store_frame, ledger, last_id, st_vars>>

\* add_conversion_record(record), alone on the database.
ST_Append ==
    /\ last_id < MaxIds
    /\ \E in \in StoreInputs, io \in IoOutcomes :
         LET id == last_id + 1
         IN  /\ ledger' = IF io = "ok"
                          THEN insert_row(ledger, Row(StoreRecord(in), id))
                          ELSE ledger
             /\ last_id' = IF io = "ok" THEN id ELSE last_id
             /\ st_op' = StoreOp(IF io = "ok" THEN "add" ELSE "add_error", 0)
    /\ UNCHANGED <<store_frame, clock, stats, hist>>

\* get_statistics().
ST_GetStatistics ==
    /\ \E io \in IoOutcomes :
         /\ stats' = read_result(io, get_statistics(ledger), ZeroStatistics)
         /\ st_op' = StoreOp(IF io = "ok" THEN "statistics" ELSE "statistics_error", 0)
    /\ UNCHANGED <<store_frame, clock, ledger, last_id, hist>>

\* get_conversion_history(limit).
ST_GetHistory ==
    /\ \E io \in IoOutcomes, limit \in HistoryLimits :
         /\ hist' = read_result(io, get_conversion_history(ledger, limit), <<>>)
         /\ st_op' = StoreOp(IF io = "ok" THEN "history" ELSE "history_error", limit)
    /\ UNCHANGED <<store_frame, clock, ledger, last_id, stats>>

\* The tabs that offer "Clear History".
ClearTabs == {"history", "settings"}

\* _clear_history of either tab: the question box, then DELETE and commit
\* on Yes; the history tab reloads its table and statistics afterwards,
\* the settings tab only reports.  An exception ends in an error box.
ST_ClearHistory(tab) ==
    /\ \E reply \in {"Yes", "No"} :
         IF reply = "No"
         THEN /\ st_op' = StoreOp("clear_declined", 0)
              /\ UNCHANGED <<ledger, stats, hist>>
         ELSE \E io \in IoOutcomes :
                IF io # "ok"
                THEN /\ st_op' = StoreOp("clear_error", 0)
                     /\ UNCHANGED <<ledger, stats, hist>>
                ELSE /\ ledger' = delete_all(ledger)
                     /\ st_op' = StoreOp("cleared", 0)
                     /\ IF tab = "history"
                        THEN \E ioH \in IoOutcomes, ioS \in IoOutcomes :
                               /\ hist' = read_result(ioH,
                                      get_conversion_history(ledger', 500), <<>>)
                               /\ stats' = read_result(ioS,
                                      get_statistics(ledger'), ZeroStatistics)
                        ELSE UNCHANGED <<stats, hist>>
    /\ UNCHANGED <<store_frame, clock, last_id>>

\* SettingsTab._optimize_database: VACUUM rebuilds the file and keeps
\* every row and rowid.
ST_Vacuum ==
    /\ st_op' = StoreOp("vacuum", 0)
    /\ UNCHANGED <<store_frame, clock, ledger, last_id, stats, hist>>

\* A fresh database and the tabs; no worker is ever started.
StoreInit ==
    /\ InitBatch({<<>>}, {<<>>})
    /\ InitDatabase
    /\ InitGif({"ok"}, {2}, {0})
    /\ InitStore
    /\ InitExtract({1}, {FALSE})
    /\ InitConfig({MissingFile})
    /\ InitForms({500}, {16})

StoreNext ==
    \/ ST_Tick
    \/ ST_Append
    \/ ST_GetStatistics
    \/ ST_GetHistory
    \/ \E tab \in ClearTabs : ST_ClearHistory(tab)
    \/ ST_Vacuum

StoreSpec == StoreInit /\ [][StoreNext]_vars

\* ------------------------------------------------------------- GIF tab
\* The GIF tab on its own: the creation worker on 0 .. MaxImages paths and
\* the optimization worker, operations taking no time or five
\* milliseconds, over one fresh database; no batch is ever started.
GifInit ==
    /\ InitBatch({<<>>}, {<<>>})
    /\ InitDatabase
    /\ InitGif(GifOutcomes, 0..MaxImages, {0, 5})
    /\ InitStore
    /\ InitExtract({1}, {FALSE})
    /\ InitConfig({MissingFile})
    /\ InitForms({500}, {16})

GifNext ==
    \/ \E w \in GifWorkers : GW_Cancel(w)
    \/ \E w \in GifWorkers : GW_Run(w)
    \/ \E w \in GifWorkers : GW_Process(w)
    \/ \E w \in GifWorkers : DB_Execute(w)
    \/ \E w \in GifWorkers : DB_Busy(w)
    \/ \E w \in GifWorkers : DB_Commit(w)
    \/ \E w \in GifWorkers : GW_Emit(w)

GifSpec == GifInit /\ [][GifNext]_vars

\* ----------------------------------------------------- frame extraction
ex_frame == <<files, cw_vars, db_vars, gw_vars, gw_output, built, last_id,
              env_vars, st_vars, cfg_vars, form_vars>>

\* What saving one frame can meet.
FrameOutcomes == {"ok", "encode_error"}

\* extract_gif_frames begins: the directory is made and the animation is
\* opened; a file that is no image raises before any frame is written.
EX_Open ==
    /\ ex_pc = "idle"
    /\ \E outcome \in GifOutcomes :
         ex_pc' = IF outcome = "ok" THEN "loop" ELSE "failed"
    /\ UNCHANGED <<ex_frame, ex_total, ex_i, ex_written, ex_progress, ex_callback,
                   ex_result>>

\* One turn of the loop over the frames: the frame is saved under its
\* name, its path is appended and progress is reported if a callback was
\* given; an exception of the save leaves the call through `raise`.
EX_Frame ==
    /\ ex_pc = "loop"
    /\ ex_i < ex_total
    /\ \E outcome \in FrameOutcomes :
         IF outcome = "ok"
         THEN /\ ex_written' = Append(ex_written, frame_path(ex_i, "png"))
              /\ ex_progress' = IF ex_callback
                                THEN Append(ex_progress, progress_percent(ex_i, ex_total))
                                ELSE ex_progress
              /\ ex_i' = ex_i + 1
              /\ UNCHANGED ex_pc
         ELSE /\ ex_pc' = "failed"
              /\ UNCHANGED <<ex_written, ex_progress, ex_i>>
    /\ UNCHANGED <<ex_frame, ex_total, ex_callback, ex_result>>

\* The iterator is exhausted: return extracted_frames.
EX_Return ==
    /\ ex_pc = "loop"
    /\ ex_i = ex_total
    /\ ex_result' = ex_written
    /\ ex_pc' = "done"
    /\ UNCHANGED <<ex_frame, ex_total, ex_i, ex_written, ex_progress, ex_callback>>

\* GifTab._extract_frames and any other caller of extract_gif_frames, on
\* an animation of 1 .. MaxFrames frames, with or without a callback.
ExtractInit ==
    /\ InitBatch({<<>>}, {<<>>})
    /\ InitDatabase
    /\ InitGif({"ok"}, {2}, {0})
    /\ InitStore
    /\ InitExtract(1..MaxFrames, BOOLEAN)
    /\ InitConfig({MissingFile})
    /\ InitForms({500}, {16})

ExtractNext ==
    \/ EX_Open
    \/ EX_Frame
    \/ EX_Return

ExtractSpec == ExtractInit /\ [][ExtractNext]_vars

\* --------------------------------------------------------- configuration
cfg_frame == <<files, cw_vars, db_vars, gw_vars, gw_output, built, last_id,
               env_vars, st_vars, ex_vars, form_vars>>

\* Keyword arguments that pass validation, with their keys split at the
\* dots.
ValidItems ==
    {[key |-> <<"conversion", "jpeg_quality">>, value |-> IntV(95)],
     [key |-> <<"conversion", "default_output_format">>, value |-> StrV("JPG")],
     [key |-> <<"ui", "window_width">>, value |-> IntV(1000)],
     [key |-> <<"logging_level">>, value |-> StrV("debug")]}

\* Keyword arguments whose value breaks the constraint of its field.
InvalidItems ==
    {[key |-> <<"conversion", "jpeg_quality">>, value |-> IntV(150)],
     [key |-> <<"conversion", "default_output_format">>, value |-> StrV("invalid")],
     [key |-> <<"ui", "window_width">>, value |-> IntV(599)],
     [key |-> <<"logging_level">>, value |-> StrV("verbose")]}

\* The calls of update_settings the model makes: one keyword argument, or
\* conversion.jpeg_quality together with an argument for another field.
UpdateCalls ==
    {<<a>> : a \in ValidItems \cup InvalidItems}
    \cup {<<a, b>> : a \in {x \in ValidItems \cup InvalidItems :
                                   x.key = <<"conversion", "jpeg_quality">>},
                     b \in {x \in ValidItems \cup InvalidItems :
                                   x.key # <<"conversion", "jpeg_quality">>}}

\* Whether a call carries a value that passes, and one that breaks a
\* constraint.
has_valid(kwargs) == \E k \in 1..Len(kwargs) : kwargs[k] \in ValidItems
has_invalid(kwargs) == \E k \in 1..Len(kwargs) : kwargs[k] \in InvalidItems

\* What the directory can hold before the application starts: no file,
\* text that is no JSON, the file an earlier run saved, or a JSON document
\* whose values break a constraint.
ConfigFiles ==
    {MissingFile, MalformedFile, JsonFile(json_dump(dict(DefaultSettings))),
     JsonFile(json_dump(dict([DefaultSettings EXCEPT !.ui.window_width = 1000]))),
     JsonFile(json_dump(dict([DefaultSettings EXCEPT !.ui.window_width = 599])))}

\* AppConfig(app_data_dir) at start-up: __init__ calls load.
CFG_Init ==
    /\ cfg_settings = <<>>
    /\ \E read \in IoOutcomes, outcome \in SaveOutcomes :
         LET res == load(cfg_file, IF cfg_file.state = "missing" THEN "ok" ELSE read,
                         IF cfg_file.state = "missing" THEN outcome ELSE "none")
         IN  /\ cfg_settings' = <<res.settings>>
             /\ cfg_file' = res.file
             /\ cfg_op' = [call |-> "init", valid |-> FALSE, invalid |-> FALSE,
                           raised |-> FALSE,
                           save |-> IF cfg_file.state = "missing" THEN outcome ELSE "none"]
    /\ UNCHANGED <<cfg_frame, cfg_new>>

\* update_settings(**kwargs) on the application's AppConfig.
CFG_Update ==
    /\ cfg_settings # <<>>
    /\ \E kwargs \in UpdateCalls, outcome \in SaveOutcomes :
         LET res == update_settings(cfg_settings[1], cfg_file, kwargs, outcome)
         IN  /\ cfg_settings' = <<res.settings>>
             /\ cfg_file' = res.file
             /\ cfg_op' = [call |-> "update", valid |-> has_valid(kwargs),
                           invalid |-> has_invalid(kwargs),
                           raised |-> res.raised,
                           save |-> IF res.rejected THEN "none" ELSE outcome]
    /\ UNCHANGED <<cfg_frame, cfg_new>>

\* A new AppConfig constructed on the same directory.
CFG_Reopen ==
    /\ cfg_settings # <<>>
    /\ \E read \in IoOutcomes, outcome \in SaveOutcomes :
         LET res == load(cfg_file, IF cfg_file.state = "missing" THEN "ok" ELSE read,
                         IF cfg_file.state = "missing" THEN outcome ELSE "none")
         IN  /\ cfg_new' = <<res.settings>>
             /\ cfg_file' = res.file
             /\ cfg_op' = [call |-> "reopen", valid |-> FALSE, invalid |-> FALSE,
                           raised |-> FALSE,
                           save |-> IF cfg_file.state = "missing" THEN outcome ELSE "none"]
    /\ UNCHANGED <<cfg_frame, cfg_settings>>

\* The configuration on its own: one of the possible files in the
\* directory; no worker is started and no store call is made.
ConfigInit ==
    /\ InitBatch({<<>>}, {<<>>})
    /\ InitDatabase
    /\ InitGif({"ok"}, {2}, {0})
    /\ InitStore
    /\ InitExtract({1}, {FALSE})
    /\ InitConfig(ConfigFiles)
    /\ InitForms({500}, {16})

ConfigNext ==
    \/ CFG_Init
    \/ CFG_Update
    \/ CFG_Reopen

ConfigSpec == ConfigInit /\ [][ConfigNext]_vars

\* ------------------------------------------------------ parameter forms
form_frame == <<files, cw_vars, db_vars, gw_vars, gw_output, built, last_id,
                env_vars, st_vars, ex_vars, cfg_vars>>

\* GifTab._get_creation_params and any other caller: GifCreationParams is
\* constructed with the requested frame duration.
GP_Construct ==
    /\ gp_params = <<>>
    /\ gp_params' = <<GifCreationParams(gp_request)>>
    /\ UNCHANGED <<form_frame, gp_request, sv_image, sv_kwargs>>

\* Frame durations a caller may ask for.
FrameDurations == 0..MaxDuration

ParamsInit ==
    /\ InitBatch({<<>>}, {<<>>})
    /\ InitDatabase
    /\ InitGif({"ok"}, {2}, {0})
    /\ InitStore
    /\ InitExtract({1}, {FALSE})
    /\ InitConfig({MissingFile})
    /\ InitForms(FrameDurations, {16})

ParamsNext == GP_Construct

ParamsSpec == ParamsInit /\ [][ParamsNext]_vars

\* _save_image(img, target_path, params) for one of the output formats.
SV_Save ==
    /\ sv_kwargs = <<>>
    /\ \E target_format \in OutputFormats :
         sv_kwargs' = <<save_kwargs(target_format, sv_image)>>
    /\ UNCHANGED <<form_frame, gp_request, gp_params, sv_image>>

\* Sides of the images handed to _save_image, in pixels: around every
\* entry of the ICO list.
ImageSides == {1, 15, 16, 17, 31, 32, 48, 63, 64, 100, 128, 255, 256, 300}

SaveInit ==
    /\ InitBatch({<<>>}, {<<>>})
    /\ InitDatabase
    /\ InitGif({"ok"}, {2}, {0})
    /\ InitStore
    /\ InitExtract({1}, {FALSE})
    /\ InitConfig({MissingFile})
    /\ InitForms({500}, ImageSides)

SaveNext == SV_Save

SaveSpec == SaveInit /\ [][SaveNext]_vars

\* ------------------------------------------------------- a batch alone
\* Source files a batch can hold: two of one directory that share the
\* stem and differ in the extension, one of that stem in another
\* directory, and one with a stem of its own.
BatchSources ==
    {SourcePath("in", 1, "png"), SourcePath("in", 1, "jpeg"),
     SourcePath("other", 1, "png"), SourcePath("in", 2, "png")}

\* Lists of distinct source files.
DistinctNames ==
    {n \in SeqsUpTo(BatchSources, MaxFiles) :
        \A i, j \in 1..Len(n) : n[i] = n[j] => i = j}

\* ConversionTab._start_conversion: one ConversionWorker on a list of
\* distinct files; no GIF worker is started.
BatchInit ==
    /\ InitBatch(SeqsUpTo(CodecOutcomes, MaxFiles), DistinctNames)
    /\ InitDatabase
    /\ InitGif({"ok"}, {2}, {0})
    /\ InitStore
    /\ InitExtract({1}, {FALSE})
    /\ InitConfig({MissingFile})
    /\ InitForms({500}, {16})

BatchNext ==
    \/ CW_Cancel
    \/ CW_Start
    \/ CW_Check
    \/ CW_Iterate
    \/ CW_Finish

BatchSpec == BatchInit /\ [][BatchNext]_vars

\* The worker thread, once started, is scheduled until run returns: each
\* step of run that can be taken is taken.  Nothing obliges the GUI to
\* start the worker or to cancel it.
BatchFairSpec ==
    /\ BatchSpec
    /\ WF_vars(CW_Check)
    /\ WF_vars(CW_Iterate)
    /\ WF_vars(CW_Finish)

\* ---------------------------------------------------------------- claims
\* Files of the batch whose codec steps do not all succeed.
CorruptFiles == {k \in 1..Len(files) : files[k] # "ok"}

\* The batch ran to the end of its list and cancel() was never called.
BatchRanToEnd == cw_pc = "done" /\ ~cw_cancelled

\* Number of rows with a given status.
CountRows(rows, status) ==
    Cardinality({k \in 1..Len(rows) : rows[k].status = status})

\* C1: a batch of N files of which K fail to convert, run to the end
\* without cancellation, leaves exactly N rows of the batch in the ledger,
\* K of them failed with target_size 0 and N-K completed.
C1_OneRowPerFile ==
    BatchRanToEnd =>
        LET rows == RowsOf("conv")
        IN  /\ Len(rows) = Len(files)
            /\ CountRows(rows, "failed") = Cardinality(CorruptFiles)
            /\ CountRows(rows, "completed") = Len(files) - Cardinality(CorruptFiles)
            /\ \A k \in 1..Len(rows) : rows[k].status = "failed" => rows[k].target_size = 0

\* C2: in a batch run to the end, file_failed is emitted once for each
\* file that fails to convert and for no other file, and all_completed
\* delivers N-K.
C2_FailedSignalPerCorruptFile ==
    BatchRanToEnd =>
        LET failed == SignalsOf("file_failed")
            final == SignalsOf("all_completed")
        IN  /\ Len(failed) = Cardinality(CorruptFiles)
            /\ {failed[k].n : k \in 1..Len(failed)} = CorruptFiles
            /\ Len(final) = 1
            /\ final[1].n = Len(files) - Cardinality(CorruptFiles)

\* C3: for every attempted file whose codec steps all succeed,
\* convert_image returns a completed record, the ledger gets exactly one
\* row for the file and file_completed is emitted for it.
C3_ValidFileCompletes ==
    \A k \in 1..Len(cw_attempted) :
        LET src == cw_attempted[k]
        IN  files[src] = "ok" =>
              /\ ~convert_image(src, files[src]).raised
              /\ convert_image(src, files[src]).record.status = "completed"
              /\ Cardinality({r \in 1..Len(ledger) :
                    ledger[r].batch = "conv" /\ ledger[r].src = src}) = 1
              /\ \E s \in 1..Len(cw_signals) :
                    cw_signals[s].sig = "file_completed" /\ cw_signals[s].n = src

\* C4: no exception escapes run; files are attempted once each in input
\* order; a batch that is not cancelled attempts every file, whatever the
\* earlier files did.
C4_EveryFileAttemptedInOrder ==
    /\ cw_pc # "crashed"
    /\ Len(cw_attempted) <= Len(files)
    /\ \A k \in 1..Len(cw_attempted) : cw_attempted[k] = k
    /\ (cw_pc \in {"finish", "done"} /\ ~cw_cancelled) =>
           Len(cw_attempted) = Len(files)

\* C4 witness: the first file failed and the second was still attempted.
C4_Witness ==
    /\ BatchRanToEnd
    /\ Len(files) >= 2
    /\ files[1] = "decode_error"
    /\ cw_attempted = <<1, 2>>

\* Lemma: convert_image never returns, so the worker never reaches the
\* statements after the call: no append is made for the batch, completed
\* stays 0 and neither file_completed nor progress_updated is emitted.
ConvertImageNeverReturns ==
    /\ \A src \in 1..Len(files) : convert_image(src, files[src]).raised
    /\ cw_completed = 0
    /\ RowsOf("conv") = <<>>
    /\ SignalsOf("file_completed") = <<>>
    /\ SignalsOf("progress_updated") = <<>>

\* C6: a batch of N files run to the end emits progress_updated exactly N
\* times, with (1,N), (2,N), ..., (N,N) in that order, whether each file
\* succeeded or failed.
C6_ProgressPerFile ==
    BatchRanToEnd =>
        SignalsOf("progress_updated") =
            [k \in 1..Len(files) |-> Signal("progress_updated", k, Len(files), "none")]

\* The batch stopped on the flag with files left: M = Len(cw_attempted)
\* files were processed, M < N.
BatchCancelledEarly ==
    cw_pc = "done" /\ cw_cancelled /\ Len(cw_attempted) < Len(files)

\* C7: a batch cancelled after M of its N files were processed (M < N)
\* ends with exactly M rows of the batch in the ledger.
C7_CancelLeavesRowPerProcessedFile ==
    BatchCancelledEarly => Len(RowsOf("conv")) = Len(cw_attempted)

\* Signals that concern a single file.
PerFileSignals ==
    SelectSeq(cw_signals,
              LAMBDA s : s.sig \in {"file_completed", "file_failed", "progress_updated"})

\* What starting a file would change: the convert calls made, the target
\* files, the batch's rows and the per-file signals.
PerFileEffects == <<cw_attempted, targets, RowsOf("conv"), PerFileSignals>>

\* C8: the flag, once set, stays set; while it is set and no iteration is
\* in flight, no iteration begins and no convert call, target file, ledger
\* row or per-file signal is produced; an iteration in flight when the
\* flag is set still ends with its convert call made and its own result
\* signal emitted.
C8_NoFileStartedAfterCancel ==
    [][ /\ cw_cancelled => cw_cancelled'
        /\ (cw_cancelled /\ cw_pc # "body") =>
               /\ cw_pc' # "body"
               /\ PerFileEffects' = PerFileEffects
        /\ (cw_cancelled /\ cw_pc = "body" /\ cw_pc' # "body") =>
               /\ cw_attempted' = Append(cw_attempted, cw_i + 1)
               /\ Len(PerFileSignals') > Len(PerFileSignals)
               /\ \A k \in Len(PerFileSignals) + 1 .. Len(PerFileSignals') :
                      PerFileSignals'[k].sig = "progress_updated"
                      \/ PerFileSignals'[k].n = cw_i + 1
      ]_vars

\* C8 witness: cancel() arrived while a file was in flight; that file was
\* finished and the files after it were never started.
C8_Witness ==
    /\ BatchCancelledEarly
    /\ cw_cancel_at = "body"
    /\ Len(cw_attempted) >= 1
    /\ targets # {}

\* Workers that emitted their completion signal.
GifCompleted(w) == \E k \in 1..Len(gw_signals[w]) : gw_signals[w][k] = "completed"

\* C9: an append that could not be persisted hands its caller an explicit
\* failure, never the id 0, and no conversion is reported completed while
\* its record is missing from the ledger.
C9_AppendFailureIsExplicit ==
    /\ \A k \in 1..Len(append_log) :
           append_log[k].outcome # "ok" => append_log[k].ret # 0
    /\ \A w \in GifWorkers : GifCompleted(w) => Len(RowsOf(w)) = 1
    /\ \A s \in 1..Len(cw_signals) :
           cw_signals[s].sig = "file_completed" =>
               \E r \in 1..Len(ledger) :
                   ledger[r].batch = "conv" /\ ledger[r].src = cw_signals[s].n

\* Every worker thread has ended.
AllWorkersDone ==
    /\ cw_pc = "done"
    /\ \A w \in GifWorkers : gw_pc[w] = "done"

\* No append call met a storage error of its own.
StorageHealthy ==
    \A k \in 1..Len(append_log) : append_log[k].outcome # "io_error"

\* C10: with the storage itself healthy, after all workers finished the
\* ledger holds one row per add_conversion_record call made, under every
\* interleaving of the workers.
C10_NoRowLostUnderConcurrency ==
    (AllWorkersDone /\ StorageHealthy) => Len(ledger) = Len(append_log)

\* ------------------------------------ claims on the store and the GIF tab
\* Bytes saved by the rows whose indices are in K, counted row by row.
RECURSIVE SavedOver(_, _)
SavedOver(rows, K) ==
    IF K = {} THEN 0
    ELSE LET k == CHOOSE i \in K : TRUE
             gain == IF rows[k].status = "completed"
                        /\ rows[k].source_size > rows[k].target_size
                     THEN rows[k].source_size - rows[k].target_size ELSE 0
         IN  gain + SavedOver(rows, K \ {k})

\* A step that inserted one row.
Inserted == Len(ledger') = Len(ledger) + 1 /\ SubSeq(ledger', 1, Len(ledger)) = ledger

\* C11: get_statistics returns total_conversions equal to the number of
\* completed rows and size_saved_bytes equal to the sum of source_size -
\* target_size over the completed rows with source_size > target_size;
\* appending a completed record of 1000 -> 600 bytes raises
\* size_saved_bytes by exactly 400, and appending a failed record changes
\* neither total_conversions nor size_saved_bytes.
C11_StatisticsCountCompletedRows ==
    [][ /\ st_op'.op = "statistics" =>
            /\ stats'.total_conversions = CountRows(ledger', "completed")
            /\ stats'.size_saved_bytes = SavedOver(ledger', DOMAIN ledger')
        /\ Inserted =>
            LET r == ledger'[Len(ledger')]
                before == get_statistics(ledger)
                after == get_statistics(ledger')
            IN  /\ (r.status = "completed" /\ r.source_size = 1000 /\ r.target_size = 600)
                      => after.size_saved_bytes = before.size_saved_bytes + 400
                /\ r.status = "failed" =>
                      /\ after.total_conversions = before.total_conversions
                      /\ after.size_saved_bytes = before.size_saved_bytes
      ]_vars

\* get_statistics was read over a ledger holding a completed row that grew
\* and a failed row, and reported nothing saved.
C11_Witness ==
    /\ st_op.op = "statistics"
    /\ \E i, j \in DOMAIN ledger :
         /\ ledger[i].status = "failed"
         /\ ledger[j].status = "completed" /\ ledger[j].source_size < ledger[j].target_size
    /\ stats.total_conversions = 1
    /\ stats.size_saved_bytes = 0

\* C12: ledger rows are immutable and the ledger is append-only: a step of
\* the program leaves the rows as they are, or adds one row after them, or
\* is the bulk clear-history operation that removes them all; no step
\* changes a field of a stored row or removes a single row.
C12_LedgerAppendOnly ==
    [][ \/ ledger' = ledger
        \/ Inserted
        \/ ledger' = <<>> /\ st_op'.op = "cleared"
      ]_vars

\* A first row was cleared away, a second was inserted under a fresh id
\* and survived a VACUUM.
C12_Witness ==
    /\ st_op.op = "vacuum"
    /\ Len(ledger) = 1
    /\ ledger[1].id = 2

\* Target formats that hold one still image.
StillFormats == {"jpg", "png", "webp", "ico"}

C14_HistoryNewestFirstWithPipelineTime ==
    st_op.op = "history" =>
        /\ Len(hist) <= st_op.limit
        /\ \A i, j \in DOMAIN hist :
              i < j => /\ hist[i].created_at >= hist[j].created_at
                       /\ hist[i].id > hist[j].id
        /\ \A k \in DOMAIN hist : \A r \in DOMAIN ledger :
              ledger[r].id = hist[k].id => hist[k].created_at = ledger[r].built_at

\* C15: after a confirmed clear-history operation the ledger holds no
\* rows, get_conversion_history returns an empty list and get_statistics
\* returns total_conversions 0, an empty by_format and size_saved_bytes 0,
\* whatever rows existed before; a declined confirmation leaves the ledger
\* unchanged.
C15_ClearEmptiesLedger ==
    [][ /\ st_op'.op = "cleared" =>
            /\ ledger' = <<>>
            /\ \A limit \in HistoryLimits : get_conversion_history(ledger', limit) = <<>>
            /\ get_statistics(ledger') = ZeroStatistics
        /\ st_op'.op = "clear_declined" => ledger' = ledger
      ]_vars

\* Two rows were stored and a confirmed clear has just removed them; the
\* tab shows an empty table and zero statistics.
C15_Witness ==
    /\ st_op.op = "cleared"
    /\ last_id = 2
    /\ hist = <<>>
    /\ stats = ZeroStatistics

\* The two read calls of the store, ended either way.
ReadOps == {"statistics", "statistics_error", "history", "history_error"}

\* C16: a persistence error on the read path never propagates:
\* get_conversion_history returns an empty list and get_statistics returns
\* {total_conversions: 0, by_format: {}, size_saved_bytes: 0} when the
\* database cannot be read, and neither call modifies the ledger.
C16_ReadErrorsDegrade ==
    [][ /\ st_op'.op = "history_error" => hist' = <<>>
        /\ st_op'.op = "statistics_error" => stats' = ZeroStatistics
        /\ st_op'.op \in ReadOps => ledger' = ledger
      ]_vars

\* get_statistics could not read a ledger that holds a completed row and
\* handed back the zero dictionary.
C16_Witness ==
    /\ st_op.op = "statistics_error"
    /\ CountRows(ledger, "completed") >= 1
    /\ stats = ZeroStatistics

\* C17: create_gif_from_images / GifCreationWorker given fewer than 2 input
\* paths fails with InsufficientFramesError, writes no output file and
\* leaves zero ledger rows.
C17_FewerThanTwoImagesRejected ==
    (gif_images < 2 /\ gw_pc["create"] = "done" /\ gw_signals["create"] # <<>>) =>
        /\ gw_signals["create"] = <<"failed">>
        /\ create_gif_from_images(gif_images, gw_input["create"]).error
               = "InsufficientFramesError"
        /\ "create" \notin gw_output
        /\ RowsOf("create") = <<>>

\* C18: each successful createFromImages or optimize operation has
\* appended exactly one ledger record, with status completed and
\* target_format gif, by the time its completion signal is emitted; an
\* extractFrames operation appends no ledger record, whether it succeeds
\* or fails.
C18_OneRowPerGifOperation ==
    /\ \A w \in GifWorkers :
          GifCompleted(w) =>
              /\ Len(RowsOf(w)) = 1
              /\ RowsOf(w)[1].status = "completed"
              /\ RowsOf(w)[1].target_format = "gif"
    /\ ex_pc \in {"done", "failed"} => RowsOf("extract") = <<>>

\* C19: every multi-frame operation is atomic: when a decode or encode
\* step of createFromImages, optimize or extractFrames fails, no output
\* file exists (no subset of the extracted frames either), no ledger row
\* exists for the attempt, and the caller received a single error.
C19_MultiFrameOperationsAtomic ==
    /\ ex_pc = "failed" => (ex_written = <<>> /\ RowsOf("extract") = <<>>)
    /\ \A w \in GifWorkers :
          (gw_pc[w] = "done" /\ gw_signals[w] # <<>> /\ gw_signals[w][1] = "failed") =>
              /\ gw_signals[w] = <<"failed">>
              /\ w \notin gw_output
              /\ RowsOf(w) = <<>>

\* The index k written with four decimal digits.
FourDigits(k) == <<(k \div 1000) % 10, (k \div 100) % 10, (k \div 10) % 10, k % 10>>

\* C20: extractFrames on an animation with F frames writes exactly F still
\* files, named frame_0000, frame_0001, ... with a 4-digit zero-padded
\* index in frame order, returns their paths in that order, and reports
\* progress after the i-th frame as floor(i*100/F), ending at 100.
C20_ExtractWritesAllFramesWithProgress ==
    ex_pc = "done" =>
        /\ Len(ex_written) = ex_total
        /\ \A k \in 1..ex_total :
              /\ ex_written[k].stem = "frame_"
              /\ ex_written[k].index = FourDigits(k - 1)
        /\ ex_result = ex_written
        /\ ex_callback =>
              /\ Len(ex_progress) = ex_total
              /\ \A k \in 1..ex_total : ex_progress[k] = (k * 100) \div ex_total
              /\ ex_progress[ex_total] = 100

\* ------------------------------------------------ claims on configuration
\* C21: a configuration value outside its range is rejected with a
\* validation error: ConversionSettings with jpeg_quality above 100 or an
\* unknown default_output_format raises, and an update_settings call that
\* carries such a value raises a validation error to its caller.
C21_InvalidValuesRaise ==
    /\ ~ConversionSettings([jpeg_quality |-> IntV(150)]).ok
    /\ ~ConversionSettings([default_output_format |-> StrV("invalid")]).ok
    /\ (cfg_op.call = "update" /\ cfg_op.invalid) => cfg_op.raised

\* C22: a new AppConfig on the same directory loads settings equal to the
\* in-memory settings of the first instance, whatever update_settings calls
\* were made before.
C22_NewInstanceLoadsSameSettings ==
    cfg_op.call = "reopen" => cfg_new = cfg_settings

\* C29: an update_settings call that carries an invalid value changes
\* neither the in-memory settings nor the file, also when the same call
\* carries valid values.
C29_InvalidUpdateChangesNothing ==
    [][(cfg_op'.call = "update" /\ cfg_op'.invalid)
          => (cfg_settings' = cfg_settings /\ cfg_file' = cfg_file)]_vars

\* A call with a valid and an invalid value was made on settings that
\* differ from the defaults, with the file holding those settings.
C29_Witness ==
    /\ cfg_op.call = "update"
    /\ cfg_op.invalid
    /\ cfg_op.valid
    /\ cfg_settings # <<DefaultSettings>>
    /\ cfg_file = JsonFile(json_dump(dict(cfg_settings[1])))

\* C30: load at construction leaves valid settings: with no file the
\* defaults are installed and written to the file; with a file, the file is
\* left as it is and a malformed or invalid one gives the defaults; the
\* settings are never None and satisfy every constraint.
C30_LoadLeavesValidSettings ==
    [][(cfg_settings = <<>> /\ cfg_settings' # <<>>)
          => /\ AppSettings(dict(cfg_settings'[1])).ok
             /\ AppSettings(dict(cfg_settings'[1])).value = cfg_settings'[1]
             /\ IF cfg_file = MissingFile
                THEN /\ cfg_settings' = <<DefaultSettings>>
                     /\ cfg_file' = JsonFile(json_dump(dict(DefaultSettings)))
                ELSE /\ cfg_file' = cfg_file
                     /\ (cfg_file.state = "malformed"
                           \/ ~AppSettings(json_load(cfg_file.doc[1])).ok)
                          => cfg_settings' = <<DefaultSettings>>]_vars

\* C23: GifCreationParams accepts a frame duration of 100 .. 5000 ms as it
\* is, and a requested duration below 100 is clamped: the construction
\* succeeds with frame_duration = 100.
C23_FrameDurationClampedTo100 ==
    gp_params # <<>> =>
        /\ gp_request \in 100..5000 =>
             (gp_params[1].ok /\ gp_params[1].frame_duration = gp_request)
        /\ gp_request < 100 =>
             (gp_params[1].ok /\ gp_params[1].frame_duration = 100)

\* The sides of the ICO list that fit an image.
QualifyingSides(img) == {s \in {16, 32, 48, 64, 128, 256} : s <= img.width /\ s <= img.height}

\* C26: for an ICO target the sizes handed to the encoder are the squares
\* s x s with s in {16, 32, 48, 64, 128, 256}, s <= width and s <= height
\* of the image, in increasing order; when no s qualifies the list is
\* exactly [(16, 16)]; it is never empty.
C26_IcoSizesFitImage ==
    (sv_kwargs # <<>> /\ sv_kwargs[1].format = "ico") =>
        LET sizes == sv_kwargs[1].sizes
        IN  /\ sizes # <<>>
            /\ IF QualifyingSides(sv_image) = {}
               THEN sizes = <<<<16, 16>>>>
               ELSE /\ {sizes[k] : k \in 1..Len(sizes)}
                         = {<<s, s>> : s \in QualifyingSides(sv_image)}
                    /\ \A k \in 1..(Len(sizes) - 1) : sizes[k][1] < sizes[k + 1][1]

\* An ICO was saved from an image wider than high: 48 and 64 fit its width
\* but only 16 and 32 fit both sides.
C26_Witness ==
    /\ sv_kwargs # <<>>
    /\ sv_kwargs[1].format = "ico"
    /\ sv_image = [width |-> 64, height |-> 32]
    /\ sv_kwargs[1].sizes = <<<<16, 16>>, <<32, 32>>>>

\* ---------------------------------------------- claims on the batch worker
\* Positions of all_completed among the signals of the worker.
AllCompletedAt == {k \in 1..Len(cw_signals) : cw_signals[k].sig = "all_completed"}

\* C24: a batch goes Idle -> Running -> Completed or Cancelled and, once
\* started, terminates: run emits all_completed exactly once, as the last
\* signal, for every input list, failure pattern and timing of cancel.
C24_BatchTerminatesWithAllCompleted ==
    /\ [](/\ cw_pc # "crashed"
          /\ Cardinality(AllCompletedAt) = (IF cw_pc = "done" THEN 1 ELSE 0)
          /\ AllCompletedAt \subseteq {Len(cw_signals)})
    /\ [][/\ cw_pc = "idle" => cw_pc' \in {"idle", "check"}
          /\ cw_pc \in {"check", "body", "finish"} => cw_pc' # "idle"
          /\ cw_pc = "done" => (cw_pc' = "done" /\ cw_signals' = cw_signals)]_vars
    /\ (cw_pc # "idle") ~> (cw_pc = "done")

\* A batch of two files was cancelled while its first file was converted
\* and ended after that file alone.
C24_Witness ==
    /\ cw_pc = "done"
    /\ Len(files) = 2
    /\ cw_cancel_at = "body"
    /\ Len(cw_attempted) = 1
    /\ cw_signals[Len(cw_signals)].sig = "all_completed"

\* Signals of one kind the worker emitted for one file.
FileSignals(name, src) ==
    SelectSeq(cw_signals, LAMBDA s : s.sig = name /\ s.n = src)

\* C27: for every file the worker started exactly one of file_completed
\* and file_failed is emitted; the integer of all_completed is the number
\* of file_completed emissions; every file_completed follows the return of
\* the append call for its record.
C27_OneOutcomeSignalPerFile ==
    /\ \A k \in 1..Len(cw_attempted) :
         Len(FileSignals("file_completed", cw_attempted[k]))
           + Len(FileSignals("file_failed", cw_attempted[k])) = 1
    /\ \A k \in AllCompletedAt :
         cw_signals[k].n = Len(SignalsOf("file_completed"))
    /\ Len(SignalsOf("file_completed"))
         <= Cardinality({k \in 1..Len(append_log) : append_log[k].caller = "conv"})

\* A batch of two files ran to its end: each file has its one outcome
\* signal and all_completed carries the number of file_completed signals.
C27_Witness ==
    /\ BatchRanToEnd
    /\ cw_attempted = <<1, 2>>
    /\ Len(SignalsOf("file_failed")) = 2
    /\ Len(SignalsOf("all_completed")) = 1

\* C28: within one batch distinct source files are written to distinct
\* target paths: at the end of the batch the output directory holds as
\* many target files as files were reported completed, and the output of
\* every file that was saved is still the one that file wrote.
C28_DistinctTargetsPerBatch ==
    cw_pc = "done" =>
        /\ Cardinality(disk) = Len(SignalsOf("file_completed"))
        /\ \A src \in targets : \E f \in disk : f.src = src

\* ------------------------------------------------ claims on the GIF workers
\* What a GIF worker leaves behind: its record, signals, output file, rows
\* and append calls.
GifEffects(w) ==
    <<gw_record[w], gw_signals[w], w \in gw_output, RowsOf(w),
      SelectSeq(append_log, LAMBDA e : e.caller = w)>>

\* A worker that did nothing.
NoGifEffects == <<NoRecord, <<>>, FALSE, <<>>, <<>>>>

\* C25: a GIF worker looks at its cancellation flag only before the
\* operation starts.  Cancelled before run it processes nothing, appends
\* no row and emits neither signal; cancelled after the operation began it
\* ends with the record and the one signal the operation gives on its own.
C25_GifCancelOnlyBeforeStart ==
    /\ [][\A w \in GifWorkers :
            /\ (gw_pc[w] = "idle" /\ gw_pc'[w] # "idle") =>
                 /\ GifEffects(w)' = GifEffects(w)
                 /\ gw_pc'[w] = (IF gw_cancelled[w] THEN "done" ELSE "process")
            /\ gw_pc[w] = "done" => (gw_pc'[w] = "done" /\ GifEffects(w)' = GifEffects(w))]_vars
    /\ [](\A w \in GifWorkers :
            /\ gw_pc[w] = "idle" => GifEffects(w) = NoGifEffects
            /\ (gw_pc[w] = "done" /\ GifEffects(w) # NoGifEffects) =>
                 LET res == gif_operation(w, gw_input[w])
                 IN  /\ gw_record[w] = res.record
                     /\ gw_signals[w] = (IF res.raised THEN <<"failed">>
                                         ELSE <<"completed">>)
                     /\ (w \in gw_output) = res.written)

\* One worker was cancelled before run and ended without a trace; the
\* other was cancelled after its operation began and completed.
C25_Witness ==
    /\ gw_pc["create"] = "done"
    /\ gw_cancelled["create"]
    /\ GifEffects("create") = NoGifEffects
    /\ gw_pc["optimize"] = "done"
    /\ gw_cancelled["optimize"]
    /\ gw_signals["optimize"] = <<"completed">>

====
